---- MODULE Spec2Model ----
(***************************************************************************)
(* A model of soundcloud_bot.py: the usage ledger (bot_stats.json), the    *)
(* shared downloads folder, and handle_url, the handler of one inbound     *)
(* text message, cut into the steps between its suspension points (await). *)
(* File names are sequences of one-character strings.                      *)
(***************************************************************************)
EXTENDS Integers, Sequences, FiniteSets, TLC

\* ---------------------------------------------------------------- bounds
NumReq == 2          \* messages handled (possibly in flight together)
NumUsers == 2        \* distinct Telegram user ids
MaxFaults == 1       \* I/O faults (failed reply, failed ledger read or save) in one run
MaxPerUser == 3      \* cap on one user's downloads in the ledger-only specification
MaxNameLen == 4      \* longest file name given to clean_filename on its own
MaxSummaryUsers == 6 \* most users in a ledger file shown by stats_command
MaxSummaryDownloads == 2  \* most downloads of one user in such a file

\* ------------------------------------------------------------- constants
max_retries == 3     \* send attempts of the direct-download branch
MAX_SIZE_MB == 50    \* Telegram's payload limit checked by handle_url
TOP_N == 5           \* users listed by get_stats_text

Req == 1..NumReq
UserId == 1..NumUsers

\* ------------------------------------------------------- clean_filename
Whitespace == {" "}
\* the characters [A-Za-z0-9_] stands for
AsciiWordChars == {"a", "Z", "7", "_"}
\* one Cyrillic letter, written by its code point; it is a single character
CYRILLIC_YA == "U+044F"
\* what \w matches in a str pattern: Unicode letters and digits and the underscore
WordChars == AsciiWordChars \cup {CYRILLIC_YA}
Hyphen == "-"
EXT_MP3 == <<".", "m", "p", "3">>
EXT_M4A == <<".", "m", "4", "a">>

RECURSIVE LastIndexOf(_, _, _)
\* largest i <= n with s[i] = c, 0 when there is none (str.rfind, 1-based)
LastIndexOf(s, c, n) ==
    IF n = 0 THEN 0
    ELSE IF s[n] = c THEN n ELSE LastIndexOf(s, c, n - 1)

\* os.path.splitext: the extension starts at the last dot, unless that dot
\* belongs to the leading dots of the last path component.
splitext(p) ==
    LET sepIndex == LastIndexOf(p, "/", Len(p))
        dotIndex == LastIndexOf(p, ".", Len(p))
    IN  IF dotIndex > sepIndex
           /\ \E i \in (sepIndex + 1)..(dotIndex - 1) : p[i] # "."
        THEN <<SubSeq(p, 1, dotIndex - 1), SubSeq(p, dotIndex, Len(p))>>
        ELSE <<p, <<>> >>

RECURSIVE SubWhitespace(_)
\* re.sub(r'\s+', '_', name)
SubWhitespace(s) ==
    IF s = <<>> THEN <<>>
    ELSE IF Head(s) \in Whitespace
         THEN IF Len(s) > 1 /\ s[2] \in Whitespace
              THEN SubWhitespace(Tail(s))
              ELSE <<"_">> \o SubWhitespace(Tail(s))
         ELSE <<Head(s)>> \o SubWhitespace(Tail(s))

\* mutant: nothing is stripped
StripSpecial_KeepsAll(s) == s

\* re.sub(r'[^\w\-]', '', name)
StripSpecial(s) == SelectSeq(s, LAMBDA c : c \in WordChars \/ c = Hyphen)

RECURSIVE CollapseUnderscores(_)
\* re.sub(r'_+', '_', name)
CollapseUnderscores(s) ==
    IF s = <<>> THEN <<>>
    ELSE IF Head(s) = "_" /\ Len(s) > 1 /\ s[2] = "_"
         THEN CollapseUnderscores(Tail(s))
         ELSE <<Head(s)>> \o CollapseUnderscores(Tail(s))

RECURSIVE StripUnderscores(_)
\* name.strip('_')
StripUnderscores(s) ==
    IF s = <<>> THEN <<>>
    ELSE IF Head(s) = "_" THEN StripUnderscores(Tail(s))
    ELSE IF s[Len(s)] = "_" THEN StripUnderscores(SubSeq(s, 1, Len(s) - 1))
    ELSE s

clean_filename(filename) ==
    LET parts == splitext(filename)
        name == parts[1]
        ext == parts[2]
    IN  StripUnderscores(CollapseUnderscores(StripSpecial(SubWhitespace(name)))) \o ext

\* the suffix test of Path.glob('*.mp3')
IsMp3(n) ==
    /\ Len(n) >= Len(EXT_MP3)
    /\ SubSeq(n, Len(n) - Len(EXT_MP3) + 1, Len(n)) = EXT_MP3

\* ------------------------------------------------- service classification
\* Sample messages, each with the substrings of url.lower() the handler tests.
Urls == {"https://example.com/x",
         "https://soundcloud.com/x/y",
         "https://open.spotify.com/track/abc",
         "https://music.yandex.ru/album/1/track/2",
         "https://soundcloud.com/x?ref=spotify.com",
         "https://vk.com/music/yandex"}

Contains(url) ==
    CASE url = "https://example.com/x" -> {}
      [] url = "https://soundcloud.com/x/y" -> {"soundcloud.com"}
      [] url = "https://open.spotify.com/track/abc" -> {"spotify.com"}
      [] url = "https://music.yandex.ru/album/1/track/2" -> {"music.yandex.ru", "yandex", "music"}
      [] url = "https://soundcloud.com/x?ref=spotify.com" -> {"soundcloud.com", "spotify.com"}
      [] url = "https://vk.com/music/yandex" -> {"vk.com", "yandex", "music"}

supported_services ==
    << <<"soundcloud.com", "SoundCloud">>,
       <<"spotify.com", "Spotify">>,
       <<"youtu.be", "YouTube">>,
       <<"youtube.com", "YouTube">>,
       <<"music.yandex.ru", "Yandex Music">>,
       <<"yandex.ru/music", "Yandex Music">>,
       <<"vk.com", "VK Music">>,
       <<"vkontakte.ru", "VK Music">>,
       <<"tidal.com", "Tidal">> >>

NoService == "unsupported"

\* mutant: the loop variable read after the loop, so an unmatched link gets the last row's name
service_found_LoopVariable(url) ==
    LET hits == {i \in 1..Len(supported_services) : supported_services[i][1] \in Contains(url)}
    IN  IF hits = {} THEN supported_services[Len(supported_services)][2]
        ELSE supported_services[CHOOSE i \in hits : \A j \in hits : i <= j][2]

\* the for loop with break: the display name of the first table row found in the url
service_found(url) ==
    LET hits == {i \in 1..Len(supported_services) : supported_services[i][1] \in Contains(url)}
    IN  IF hits = {} THEN NoService
        ELSE supported_services[CHOOSE i \in hits : \A j \in hits : i <= j][2]

\* the two special-case tests that follow update_user_stats, in order
Branch(url) ==
    IF "spotify.com" \in Contains(url) THEN "spotify"
    ELSE IF "yandex" \in Contains(url) /\ "music" \in Contains(url) THEN "yandex"
    ELSE "direct"

IsSearch(b) == b \in {"spotify", "yandex"}

\* ------------------------------------------------------------ the ledger
FreshLedger == [total_downloads |-> 0, total_users |-> 0, users |-> << >>]

\* STATS_FILE on disk: absent, not JSON, JSON that is no object (a list, a
\* number: subscripting it by 'users' and calling its get both raise), or a ledger
Missing == [kind |-> "missing", doc |-> FreshLedger]
Corrupt == [kind |-> "corrupt", doc |-> FreshLedger]
OtherJson == [kind |-> "other", doc |-> FreshLedger]
LedgerFile(doc) == [kind |-> "ledger", doc |-> doc]

\* load_stats: what json.load returns, or the fresh dict when the file is
\* absent or reading it raised (readOk = FALSE: open failed; corrupt: not JSON)
load_stats(file, readOk) ==
    IF file.kind = "missing" \/ file.kind = "corrupt" \/ ~readOk
    THEN [shape |-> "ledger", doc |-> FreshLedger]
    ELSE [shape |-> file.kind, doc |-> file.doc]

\* mutant: nothing is written
save_stats_Discards(file, stats, outcome) == file

\* save_stats: open(..., 'w') truncates, json.dump writes; every error is swallowed
SaveOutcomes == {"ok", "open_failed", "write_failed"}
save_stats(file, stats, outcome) ==
    CASE outcome = "ok" -> LedgerFile(stats)
      [] outcome = "open_failed" -> file
      [] outcome = "write_failed" -> Corrupt

\* mutant: total_users incremented on every call
Bump_CountsEveryCall(stats, u) ==
    LET known == u \in DOMAIN stats.users
        users1 == IF known THEN stats.users
                  ELSE [v \in DOMAIN stats.users \cup {u} |->
                           IF v = u THEN 0 ELSE stats.users[v]]
    IN  [total_downloads |-> stats.total_downloads + 1,
         total_users |-> stats.total_users + 1,
         users |-> [users1 EXCEPT ![u] = @ + 1]]

\* mutant: a known user's record is rebuilt instead of incremented
Bump_ResetsKnownUser(stats, u) ==
    LET users1 == [v \in DOMAIN stats.users \cup {u} |->
                      IF v = u THEN 0 ELSE stats.users[v]]
    IN  [total_downloads |-> stats.total_downloads + 1,
         total_users |-> IF u \in DOMAIN stats.users
                         THEN stats.total_users ELSE stats.total_users + 1,
         users |-> [users1 EXCEPT ![u] = @ + 1]]

\* the body of update_user_stats between load_stats and save_stats
Bump(stats, u) ==
    LET known == u \in DOMAIN stats.users
        users1 == IF known THEN stats.users
                  ELSE [v \in DOMAIN stats.users \cup {u} |->
                           IF v = u THEN 0 ELSE stats.users[v]]
        users2 == [users1 EXCEPT ![u] = @ + 1]
    IN  [total_downloads |-> stats.total_downloads + 1,
         total_users |-> IF known THEN stats.total_users ELSE stats.total_users + 1,
         users |-> users2]

\* mutant: the update starts from a snapshot taken before the other call's save
update_user_stats_StaleSnapshot(file, u, readOk, outcome) ==
    save_stats(file, Bump(FreshLedger, u), outcome)

\* update_user_stats: the file it leaves. JSON of another shape makes
\* stats['users'] raise, which the outer except swallows before any save.
update_user_stats(file, u, readOk, outcome) ==
    LET loaded == load_stats(file, readOk)
    IN  IF loaded.shape # "ledger" THEN file
        ELSE save_stats(file, Bump(loaded.doc, u), outcome)

\* how the read went, for the record kept of each call
LoadResult(file, readOk) ==
    IF file.kind = "missing" THEN "absent"
    ELSE IF ~readOk \/ file.kind = "corrupt" THEN "failed"
    ELSE IF file.kind = "other" THEN "badshape"
    ELSE "ok"

RECURSIVE SumOver(_, _)
SumOver(f, S) ==
    IF S = {} THEN 0
    ELSE LET x == CHOOSE y \in S : TRUE IN f[x] + SumOver(f, S \ {x})

\* ------------------------------------------------------------- the state
Titles == {<<"a">>, <<"a", "!">>}       \* info['title'] as the collaborator reports it
Sizes == {MAX_SIZE_MB, MAX_SIZE_MB + 1} \* artifact sizes in MB, at and over the limit
THUMB_PATH == <<"c", ".", "j", "p", "g">>
NoPath == << >>

VARIABLES
    statsFile,   \* content of STATS_FILE
    downloads,   \* DOWNLOAD_FOLDER: file name -> [size, mtime, by]
    clock,       \* source of st_mtime
    faults,      \* I/O faults injected so far
    call,        \* how the update_user_stats call just made went
    hist,        \* update_user_stats calls made, and whether any met an I/O fault
    pc,          \* where each message's handle_url task stands
    req,         \* the live locals of each handle_url call
    log,         \* what each call has done, in order
    owner,       \* the OWNER_ID environment variable, 0 when it is not set
    order,       \* the keys of the ledger file's users object, in file order
    cmd,         \* how the latest stats_command call went
    cleaned      \* a file name and what clean_filename made of it

vars == <<statsFile, downloads, clock, faults, call, hist, pc, req, log,
          owner, order, cmd, cleaned>>

\* what handle_url and update_user_stats never touch
commandVars == <<owner, order, cmd, cleaned>>

NoText == [kind |-> "none", total_downloads |-> 0, total_users |-> 0, top |-> << >>]
NoCmd == [caller |-> 0, reply |-> "none", reads |-> 0, readOk |-> TRUE,
          text |-> NoText, delivered |-> FALSE]
NoName == [input |-> << >>, once |-> << >>, twice |-> << >>, applied |-> FALSE]

NewReq ==
    [user |-> 0, url |-> "", service |-> "none",
     mode |-> "none", title |-> NoPath, result |-> "none", path |-> NoPath,
     size |-> 0, attempt |-> 0, thumbnail |-> NoPath,
     status |-> "none", crashed |-> FALSE, exitFile |-> "none"]

NoCall == [user |-> 0, load |-> "none", save |-> "none", before |-> Missing]

InitFiles == {Missing}

Init ==
    /\ statsFile \in InitFiles
    /\ downloads = << >>
    /\ clock = 0
    /\ faults = 0
    /\ call = NoCall
    /\ hist = [calls |-> 0, anyFault |-> FALSE]
    /\ pc = [r \in Req |-> "idle"]
    /\ req = [r \in Req |-> NewReq]
    /\ log = [r \in Req |-> << >>]
    /\ owner = 0
    /\ order = << >>
    /\ cmd = NoCmd
    /\ cleaned = NoName

\* ------------------------------------------------------------- helpers
\* A call that has returned is observed once (pc = "done"), then its task is
\* dropped before anything else runs.
Running == \A q \in Req : pc[q] # "done"

\* handle_url runs from its entry to the first await without yielding the
\* event loop: no other task moves while one is between those two points.
InSync == \E q \in Req : pc[q] \in {"classified", "recorded"}

Exists(path) == path \in DOMAIN downloads

WriteFile(dir, name, rec) ==
    [n \in DOMAIN dir \cup {name} |-> IF n = name THEN rec ELSE dir[n]]

\* mutant: the file stays
Unlink_KeepsFile(dir, name) == dir

Unlink(dir, name) == [n \in DOMAIN dir \ {name} |-> dir[n]]

\* mutant: the least recently modified file is taken
Latest_Oldest(dir, names) == CHOOSE n \in names : \A m \in names : dir[n].mtime <= dir[m].mtime

\* max(files, key=lambda p: p.stat().st_mtime)
Latest(dir, names) == CHOOSE n \in names : \A m \in names : dir[m].mtime <= dir[n].mtime

\* mutant: no reply is sent and nothing is raised
ReplyChain_Silent(kinds, k) == [events |-> << >>, crashed |-> FALSE]

\* A reply_text inside nested try blocks: the first k replies raise, each
\* caught by the next handler out, whose own reply is the next of kinds.
\* With k = Len(kinds) the last exception leaves handle_url.
ReplyChain(kinds, k) ==
    [events |-> IF k < Len(kinds) THEN <<kinds[k + 1]>> ELSE << >>,
     crashed |-> k = Len(kinds)]

\* mutant: a return that leaves without running the finally clause
FinallyDelete_Skipped(status) == status

\* the finally clauses (lines 444-448, 495-499, 617-622): loading_msg.delete(),
\* which raises, swallowed, when the message is already gone
FinallyDelete(status) == IF status = "shown" THEN "deleted" ELSE status

\* the finally clause and the return
Return(r, rq, events, dir, crashed) ==
    /\ req' = [req EXCEPT ![r] =
                 [rq EXCEPT !.status = FinallyDelete(rq.status),
                            !.crashed = crashed,
                            !.exitFile = IF rq.path = NoPath THEN "none"
                                         ELSE IF rq.path \in DOMAIN dir THEN "left"
                                         ELSE "gone"]]
    /\ log' = [log EXCEPT ![r] =
                 @ \o events \o (IF FinallyDelete(rq.status) # rq.status
                                 THEN <<"status_del">> ELSE << >>)]
    /\ downloads' = dir
    /\ pc' = [pc EXCEPT ![r] = "done"]

\* an error reply through the handlers named in kinds, then the return
ReplyAndReturn(r, rq, before, kinds, dir) ==
    \E k \in 0..Len(kinds) :
        /\ faults + k <= MaxFaults
        /\ faults' = faults + k
        /\ Return(r, rq, before \o ReplyChain(kinds, k).events, dir, ReplyChain(kinds, k).crashed)

\* the record of one update_user_stats call
CallRecord(u, file, readOk, outcome) ==
    LET lr == LoadResult(file, readOk)
    IN  [user |-> u, load |-> lr,
         save |-> IF lr = "badshape" THEN "none" ELSE outcome,
         before |-> file]

CleanCall(c) == c.load \in {"absent", "ok"} /\ c.save = "ok"

\* ------------------------------------------------------------ handle_url
\* Lines 361-394: the message text and sender, the service table lookup and
\* the reply to an unsupported link.
Classify(r) ==
    /\ UNCHANGED commandVars
    /\ Running /\ ~InSync
    /\ pc[r] = "idle"
    /\ \A q \in Req : q < r => pc[q] # "idle"
    /\ UNCHANGED <<statsFile, clock, call, hist>>
    /\ \E u \in UserId, url \in Urls :
        LET rq == [req[r] EXCEPT !.user = u, !.url = url, !.service = service_found(url)]
        IN  IF rq.service = NoService
            THEN ReplyAndReturn(r, rq, << >>, <<"unsupported">>, downloads)
            ELSE /\ req' = [req EXCEPT ![r] = rq]
                 /\ pc' = [pc EXCEPT ![r] = "classified"]
                 /\ UNCHANGED <<downloads, faults, log>>

\* Line 397: update_user_stats(user_id, username, first_name)
Record(r) ==
    /\ UNCHANGED commandVars
    /\ pc[r] = "classified"
    /\ UNCHANGED <<downloads, clock, req>>
    /\ \E readOk \in BOOLEAN, outcome \in SaveOutcomes :
        LET c == CallRecord(req[r].user, statsFile, readOk, outcome)
            nf == (IF ~readOk THEN 1 ELSE 0) + (IF outcome # "ok" THEN 1 ELSE 0)
        IN  /\ statsFile.kind \in {"missing", "corrupt"} => readOk
            /\ c.save = "none" => outcome = "ok"
            /\ faults + nf <= MaxFaults
            /\ faults' = faults + nf
            /\ statsFile' = update_user_stats(statsFile, req[r].user, readOk, outcome)
            /\ call' = c
            /\ hist' = [calls |-> hist.calls + 1,
                        anyFault |-> hist.anyFault \/ ~CleanCall(c)]
    /\ log' = [log EXCEPT ![r] = <<"record">>]
    /\ pc' = [pc EXCEPT ![r] = "recorded"]

\* Lines 400-401, 452-453, 505-510: the branch taken and its status message.
\* (send_action of line 506 changes nothing here and its errors are swallowed.)
Announce(r) ==
    /\ UNCHANGED commandVars
    /\ pc[r] = "recorded"
    /\ UNCHANGED <<statsFile, downloads, clock, hist>>
    /\ call' = NoCall
    /\ \E statusOk \in BOOLEAN :
        LET rq == [req[r] EXCEPT !.mode = IF IsSearch(Branch(req[r].url))
                                          THEN "search" ELSE "direct",
                                 !.user = 0, !.url = "", !.service = "none"]
        IN  IF statusOk
            THEN /\ req' = [req EXCEPT ![r] = [rq EXCEPT !.status = "shown"]]
                 /\ log' = [log EXCEPT ![r] = Append(@, "status")]
                 /\ pc' = [pc EXCEPT ![r] = IF rq.mode = "search" THEN "meta" ELSE "extract"]
                 /\ UNCHANGED faults
            ELSE \* reply_text raises outside every try block
                 /\ faults + 1 <= MaxFaults
                 /\ faults' = faults + 1
                 /\ req' = [req EXCEPT ![r] = [rq EXCEPT !.crashed = TRUE]]
                 /\ UNCHANGED log
                 /\ pc' = [pc EXCEPT ![r] = "done"]

\* mutant: the handler goes on without a title
AfterMeta_NoReturn(resolved) == "extract"

\* the title test of lines 408-412 and 459-463: go on, or reply and return
AfterMeta(resolved) == IF resolved THEN "extract" ELSE "done"

\* Lines 404-412, 456-463: get_track_info in the worker pool, then the title test.
Meta(r) ==
    /\ UNCHANGED commandVars
    /\ Running /\ ~InSync
    /\ pc[r] = "meta"
    /\ UNCHANGED <<statsFile, clock, call, hist>>
    /\ \E resolved \in BOOLEAN :
        LET events == IF resolved THEN <<"meta">> ELSE <<"meta", "no_title">>
        IN  IF AfterMeta(resolved) = "extract"
            THEN /\ pc' = [pc EXCEPT ![r] = "extract"]
                 /\ log' = [log EXCEPT ![r] = @ \o events]
                 /\ UNCHANGED <<req, downloads, faults>>
            ELSE \* loading_msg.delete(), the reply, return; the finally's delete then fails
                 /\ ReplyAndReturn(r, [req[r] EXCEPT !.status = "deleted"],
                                   events \o <<"status_del">>,
                                   <<"err_meta", "err_generic">>, downloads)

\* Lines 245-247, 96-98: ydl.extract_info(..., download=True) in the worker
\* pool. The collaborator raises, or returns info with a title, having left
\* '<title>.mp3' (the postprocessor's output), a file of another extension,
\* or nothing in DOWNLOAD_FOLDER.
ExtractOutcomes == {"raise", "nofile", "mp3", "m4a"}
Extract(r) ==
    /\ UNCHANGED commandVars
    /\ Running /\ ~InSync
    /\ pc[r] = "extract"
    /\ UNCHANGED <<statsFile, faults, call, hist>>
    /\ log' = [log EXCEPT ![r] = Append(@, "extract")]
    /\ \E kind \in ExtractOutcomes, t \in Titles, sz \in Sizes :
        CASE kind = "raise" ->
               /\ req' = [req EXCEPT ![r].result = "exception"]
               /\ pc' = [pc EXCEPT ![r] = "check"]
               /\ UNCHANGED <<downloads, clock>>
          [] kind = "nofile" ->
               /\ req' = [req EXCEPT ![r].title = t]
               /\ pc' = [pc EXCEPT ![r] = "locate"]
               /\ UNCHANGED <<downloads, clock>>
          [] OTHER ->
               /\ req' = [req EXCEPT ![r].title = t]
               /\ pc' = [pc EXCEPT ![r] = "locate"]
               /\ clock' = clock + 1
               /\ downloads' = WriteFile(downloads,
                                         t \o (IF kind = "mp3" THEN EXT_MP3 ELSE EXT_M4A),
                                         [size |-> sz, mtime |-> clock + 1, by |-> r])

Mp3Files(dir) == {n \in DOMAIN dir : IsMp3(n)}

\* download_soundcloud, lines 253-289: the path it returns, NoPath for (False, ...)
download_soundcloud(dir, title) ==
    LET file_path == clean_filename(title \o EXT_MP3)
    IN  IF file_path \in DOMAIN dir THEN file_path
        ELSE IF Mp3Files(dir) # {} THEN Latest(dir, Mp3Files(dir))
        ELSE IF DOMAIN dir # {} THEN Latest(dir, DOMAIN dir)
        ELSE NoPath

\* search_youtube_and_download, lines 104-123
search_youtube_and_download(dir, title) ==
    LET file_path == clean_filename(title \o EXT_MP3)
    IN  IF file_path \in DOMAIN dir THEN file_path
        ELSE IF Mp3Files(dir) # {} THEN Latest(dir, Mp3Files(dir))
        ELSE NoPath

\* the rest of the worker-pool call: locating the file the collaborator left
Locate(r) ==
    /\ UNCHANGED commandVars
    /\ Running /\ ~InSync
    /\ pc[r] = "locate"
    /\ UNCHANGED <<statsFile, downloads, clock, faults, call, hist, log>>
    /\ LET found == IF req[r].mode = "search"
                    THEN search_youtube_and_download(downloads, req[r].title)
                    ELSE download_soundcloud(downloads, req[r].title)
       IN  req' = [req EXCEPT ![r].result = IF found = NoPath THEN "not_created" ELSE "path",
                              ![r].path = found,
                              ![r].title = NoPath]
    /\ pc' = [pc EXCEPT ![r] = "check"]

\* the size guard of line 525
TooLarge(size) == size > MAX_SIZE_MB

\* whether the branch checks the size before sending (only lines 521-528 do)
SizeGuarded(mode) == mode = "direct"

\* Lines 419-423/470-474 and 516-544: the handler resumes with (success, result).
Check(r) ==
    /\ UNCHANGED commandVars
    /\ Running /\ ~InSync
    /\ pc[r] = "check"
    /\ UNCHANGED <<statsFile, clock, call, hist>>
    /\ LET rq0 == req[r]
           \* the size of the file found, as st_size reports it
           rq == IF rq0.result = "path" /\ Exists(rq0.path)
                 THEN [rq0 EXCEPT !.size = downloads[rq0.path].size] ELSE rq0
       IN
       IF rq.result # "path"
       THEN ReplyAndReturn(r, rq, << >>, <<"err_extract", "err_generic">>, downloads)
       ELSE IF ~Exists(rq.path)
       THEN IF rq.mode = "search"
            THEN \* no else branch: nothing is said
                 /\ Return(r, rq, << >>, downloads, FALSE)
                 /\ UNCHANGED faults
            ELSE ReplyAndReturn(r, rq, << >>, <<"err_missing", "err_generic">>, downloads)
       ELSE IF SizeGuarded(rq.mode) /\ TooLarge(rq.size)
       THEN ReplyAndReturn(r, rq, << >>, <<"err_size", "err_send", "err_generic">>, downloads)
       ELSE IF rq.mode = "search"
       THEN \* open() and the reply_audio call
            /\ log' = [log EXCEPT ![r] = Append(@, "send")]
            /\ pc' = [pc EXCEPT ![r] = "sending"]
            /\ req' = [req EXCEPT ![r] = rq]
            /\ UNCHANGED <<downloads, faults>>
       ELSE \* get_track_info in the worker pool; its thumbnail field set or not
            \E hasThumb \in BOOLEAN :
               /\ pc' = [pc EXCEPT ![r] = IF hasThumb THEN "thumb" ELSE "send"]
               /\ req' = [req EXCEPT ![r] = rq]
               /\ UNCHANGED <<downloads, faults, log>>

\* Lines 536-543: download_thumbnail in the worker pool; any error means no thumbnail.
download_thumbnail(dir, r, ok, now) ==
    IF ok THEN WriteFile(dir, THUMB_PATH, [size |-> 0, mtime |-> now, by |-> r]) ELSE dir

Thumb(r) ==
    /\ UNCHANGED commandVars
    /\ Running /\ ~InSync
    /\ pc[r] = "thumb"
    /\ UNCHANGED <<statsFile, faults, call, hist, log>>
    /\ \E ok \in BOOLEAN :
        /\ downloads' = download_thumbnail(downloads, r, ok, clock + 1)
        /\ clock' = IF ok THEN clock + 1 ELSE clock
        /\ req' = [req EXCEPT ![r].thumbnail = IF ok THEN THUMB_PATH ELSE NoPath]
    /\ pc' = [pc EXCEPT ![r] = "send"]

\* whether the retry loop goes round again after a failed attempt (lines 576, 581)
RetryAgain(attempt) == attempt < max_retries - 1

\* Lines 547-560: one turn of the retry loop up to the reply_audio call.
SendStart(r) ==
    /\ UNCHANGED commandVars
    /\ Running /\ ~InSync
    /\ pc[r] = "send"
    /\ UNCHANGED <<statsFile, clock, call, hist>>
    /\ LET rq == req[r] IN
       IF Exists(rq.path)
       THEN /\ log' = [log EXCEPT ![r] = Append(@, "send")]
            /\ pc' = [pc EXCEPT ![r] = "sending"]
            /\ req' = [req EXCEPT ![r].size = downloads[rq.path].size]
            /\ UNCHANGED <<downloads, faults>>
       ELSE \* open() raises FileNotFoundError
            IF RetryAgain(rq.attempt)
            THEN /\ log' = [log EXCEPT ![r] = @ \o <<"open_fail", "sleep">>]
                 /\ req' = [req EXCEPT ![r].attempt = @ + 1]
                 /\ UNCHANGED <<pc, downloads, faults>>
            ELSE ReplyAndReturn(r, rq, <<"open_fail">>, <<"err_send", "err_generic">>,
                                downloads)

\* mutant: only the thumbnail is removed
CleanupDirect_ThumbnailOnly(dir, rq) ==
    IF rq.thumbnail # NoPath /\ rq.thumbnail \in DOMAIN dir
    THEN Unlink(dir, rq.thumbnail) ELSE dir

\* lines 587-600: the cleanup that follows the loop in the direct branch
CleanupDirect(dir, rq) ==
    LET dir1 == IF rq.path \in DOMAIN dir THEN Unlink(dir, rq.path) ELSE dir
    IN  IF rq.thumbnail # NoPath /\ rq.thumbnail \in DOMAIN dir1
        THEN Unlink(dir1, rq.thumbnail) ELSE dir1

\* the folder after a send that raised for the last time: both branches
\* reply and leave the files where they are (lines 435-437, 602-607)
CleanupAfterFailure(dir, rq) == dir

\* Lines 560-607 and 424-437/475-488: reply_audio completes or raises.
SendOutcomes == {"ok", "error", "timeout"}
SendFinish(r) ==
    /\ UNCHANGED commandVars
    /\ Running /\ ~InSync
    /\ pc[r] = "sending"
    /\ UNCHANGED <<statsFile, clock, call, hist>>
    /\ LET rq == req[r] IN
       \E outcome \in SendOutcomes :
       IF rq.mode = "search"
       THEN IF outcome = "ok"
            THEN IF Exists(rq.path)
                 THEN /\ Return(r, rq, <<"sent", "unlink">>, Unlink(downloads, rq.path), FALSE)
                      /\ UNCHANGED faults
                 ELSE \* file_path.unlink() raises inside the try
                      ReplyAndReturn(r, rq, <<"sent", "unlink_err">>,
                                     <<"err_send", "err_generic">>, downloads)
            ELSE ReplyAndReturn(r, rq, <<"send_fail">>, <<"err_send", "err_generic">>,
                                CleanupAfterFailure(downloads, rq))
       ELSE IF outcome = "ok"
            THEN /\ Return(r, rq,
                           <<"sent", IF Exists(rq.path) THEN "unlink" ELSE "unlink_err">>,
                           CleanupDirect(downloads, rq), FALSE)
                 /\ UNCHANGED faults
            ELSE IF RetryAgain(rq.attempt)
            THEN /\ log' = [log EXCEPT ![r] = @ \o <<"send_fail", "sleep">>]
                 /\ req' = [req EXCEPT ![r].attempt = @ + 1]
                 /\ pc' = [pc EXCEPT ![r] = "send"]
                 /\ UNCHANGED <<downloads, faults>>
            ELSE ReplyAndReturn(r, rq, <<"send_fail">>,
                                IF outcome = "timeout"
                                THEN <<"err_timeout", "err_generic">>
                                ELSE <<"err_send", "err_generic">>,
                                CleanupAfterFailure(downloads, rq))

\* the task of a returned call is dropped with its locals
Forget(r) ==
    /\ UNCHANGED commandVars
    /\ pc[r] = "done"
    /\ pc' = [pc EXCEPT ![r] = "gone"]
    /\ req' = [req EXCEPT ![r] = NewReq]
    /\ log' = [log EXCEPT ![r] = << >>]
    /\ UNCHANGED <<statsFile, downloads, clock, faults, call, hist>>

Next ==
    \E r \in Req :
        \/ Forget(r)
        \/ Classify(r)
        \/ Record(r)
        \/ Announce(r)
        \/ Meta(r)
        \/ Extract(r)
        \/ Locate(r)
        \/ Check(r)
        \/ Thumb(r)
        \/ SendStart(r)
        \/ SendFinish(r)

Spec == Init /\ [][Next]_vars

\* ------------------------------------------------- the ledger on its own
\* update_user_stats called any number of times, I/O faults unbounded.
InitLedger ==
    /\ statsFile \in {Missing, Corrupt, OtherJson}
    /\ downloads = << >>
    /\ clock = 0
    /\ faults = 0
    /\ call = NoCall
    /\ hist = [calls |-> 0, anyFault |-> FALSE]
    /\ pc = [r \in Req |-> "idle"]
    /\ req = [r \in Req |-> NewReq]
    /\ log = [r \in Req |-> << >>]
    /\ owner = 0
    /\ order = << >>
    /\ cmd = NoCmd
    /\ cleaned = NoName

Downloads(file, u) ==
    IF file.kind = "ledger" /\ u \in DOMAIN file.doc.users THEN file.doc.users[u] ELSE 0

RecordDownload(u) ==
    /\ UNCHANGED commandVars
    /\ Downloads(statsFile, u) < MaxPerUser
    /\ \E readOk \in BOOLEAN, outcome \in SaveOutcomes :
        LET c == CallRecord(u, statsFile, readOk, outcome)
        IN  /\ statsFile.kind \in {"missing", "corrupt"} => readOk
            /\ c.save = "none" => outcome = "ok"
            /\ statsFile' = update_user_stats(statsFile, u, readOk, outcome)
            /\ call' = c
    /\ UNCHANGED <<downloads, clock, faults, hist, pc, req, log>>

NextLedger == \E u \in UserId : RecordDownload(u)

LedgerSpec == InitLedger /\ [][NextLedger]_vars

\* ------------------------------------------------------- the /stats command
\* stats['users'].items(): the user records in the order of the file
Items(doc, ord) ==
    [i \in 1..Len(ord) |-> [user |-> ord[i], downloads |-> doc.users[ord[i]]]]

\* where a record goes in a list sorted by downloads, largest first: behind
\* every record with as many downloads or more (the sort is stable)
InsertByDownloads(sorted, x) ==
    LET before == {j \in 1..Len(sorted) : sorted[j].downloads < x.downloads}
        at == IF before = {} THEN Len(sorted) + 1
              ELSE CHOOSE j \in before : \A k \in before : j <= k
    IN  SubSeq(sorted, 1, at - 1) \o <<x>> \o SubSeq(sorted, at, Len(sorted))

\* mutant: the records are left in file order
SortedByDownloads_FileOrder(items, n) == items

RECURSIVE SortedByDownloads(_, _)
\* sorted(items, key=downloads, reverse=True) of the first n records
SortedByDownloads(items, n) ==
    IF n = 0 THEN << >>
    ELSE InsertByDownloads(SortedByDownloads(items, n - 1), items[n])

\* the slice [:5]
Top(seq) == SubSeq(seq, 1, IF Len(seq) < TOP_N THEN Len(seq) ELSE TOP_N)

ErrorText == [NoText EXCEPT !.kind = "error"]

\* get_stats_text: the totals and the list it formats, or the error text when
\* the loaded value has no get method
get_stats_text(file, ord, readOk) ==
    LET loaded == load_stats(file, readOk)
        keys == IF file.kind = "ledger" /\ readOk THEN ord ELSE << >>
    IN  IF loaded.shape # "ledger" THEN ErrorText
        ELSE [kind |-> "summary",
              total_downloads |-> loaded.doc.total_downloads,
              total_users |-> loaded.doc.total_users,
              top |-> Top(SortedByDownloads(Items(loaded.doc, keys), Len(keys)))]

\* the test of line 352: an owner is configured and the caller is someone else
Denied(caller) == owner # 0 /\ caller # owner

RECURSIVE Ascending(_)
Ascending(S) ==
    IF S = {} THEN << >>
    ELSE LET m == CHOOSE x \in S : \A y \in S : x <= y
         IN  <<m>> \o Ascending(S \ {m})

RECURSIVE Descending(_)
Descending(S) ==
    IF S = {} THEN << >>
    ELSE LET m == CHOOSE x \in S : \A y \in S : y <= x
         IN  <<m>> \o Descending(S \ {m})

\* a ledger file as update_user_stats leaves it: totals that match the records
LedgerOf(f) ==
    LET known == {u \in DOMAIN f : f[u] > 0}
        users == [u \in known |-> f[u]]
    IN  [total_downloads |-> SumOver(users, known),
         total_users |-> Cardinality(known),
         users |-> users]

SummaryFiles ==
    {Missing, Corrupt, OtherJson}
    \cup {LedgerFile(LedgerOf(f)) : f \in [1..MaxSummaryUsers -> 0..MaxSummaryDownloads]}

InitSummary ==
    /\ statsFile \in SummaryFiles
    /\ order \in {Ascending(DOMAIN statsFile.doc.users),
                   Descending(DOMAIN statsFile.doc.users)}
    /\ owner \in {0, 1}
    /\ cmd = NoCmd
    /\ cleaned = NoName
    /\ downloads = << >>
    /\ clock = 0
    /\ faults = 0
    /\ call = NoCall
    /\ hist = [calls |-> 0, anyFault |-> FALSE]
    /\ pc = [r \in Req |-> "idle"]
    /\ req = [r \in Req |-> NewReq]
    /\ log = [r \in Req |-> << >>]

\* stats_command, lines 345-357; delivered is whether its reply_text returned
stats_command(caller) ==
    /\ \E readOk \in BOOLEAN, delivered \in BOOLEAN :
        /\ statsFile.kind \in {"missing", "corrupt"} => readOk
        /\ cmd' = IF Denied(caller)
                  THEN [caller |-> caller, reply |-> "denied", reads |-> 0,
                        readOk |-> TRUE, text |-> NoText, delivered |-> delivered]
                  ELSE [caller |-> caller, reply |-> "stats", reads |-> 1,
                        readOk |-> readOk,
                        text |-> get_stats_text(statsFile, order, readOk),
                        delivered |-> delivered]
        /\ Denied(caller) => readOk
    /\ UNCHANGED <<statsFile, downloads, clock, faults, call, hist, pc, req, log,
                   owner, order, cleaned>>

NextSummary == \E caller \in UserId : stats_command(caller)

SummarySpec == InitSummary /\ [][NextSummary]_vars

\* ------------------------------------------------ clean_filename on its own
\* clean_filename applied to every name of up to MaxNameLen characters, and
\* again to its own result.
NameChars == {"a", "_", " ", "!", Hyphen, ".", "/", CYRILLIC_YA}

RECURSIVE NamesOfLen(_)
NamesOfLen(n) ==
    IF n = 0 THEN {<< >>}
    ELSE {Append(s, c) : s \in NamesOfLen(n - 1), c \in NameChars}

Names == UNION {NamesOfLen(n) : n \in 0..MaxNameLen}

InitClean ==
    /\ statsFile = Missing
    /\ downloads = << >>
    /\ clock = 0
    /\ faults = 0
    /\ call = NoCall
    /\ hist = [calls |-> 0, anyFault |-> FALSE]
    /\ pc = [r \in Req |-> "idle"]
    /\ req = [r \in Req |-> NewReq]
    /\ log = [r \in Req |-> << >>]
    /\ owner = 0
    /\ order = << >>
    /\ cmd = NoCmd
    /\ cleaned \in {[NoName EXCEPT !.input = f] : f \in Names}

Clean ==
    /\ ~cleaned.applied
    /\ cleaned' = [input |-> cleaned.input,
                   once |-> clean_filename(cleaned.input),
                   twice |-> clean_filename(clean_filename(cleaned.input)),
                   applied |-> TRUE]
    /\ UNCHANGED <<statsFile, downloads, clock, faults, call, hist, pc, req, log,
                   owner, order, cmd>>

NextClean == Clean

CleanSpec == InitClean /\ [][NextClean]_vars

\* ---------------------------------------------------------------- claims
Count(seq, e) == Len(SelectSeq(seq, LAMBDA x : x = e))
Has(seq, e) == \E i \in 1..Len(seq) : seq[i] = e
ErrorReplies(seq) ==
    SelectSeq(seq, LAMBDA x : x \in {"err_meta", "err_extract", "err_missing", "err_size",
                                     "err_send", "err_timeout", "err_generic"})
\* what the transport answered to each reply_audio call, in order
SendResults(seq) == SelectSeq(seq, LAMBDA x : x \in {"send_fail", "sent"})
\* the delivery part of a call's trace
DeliverySteps(seq) ==
    SelectSeq(seq, LAMBDA x : x \in {"send", "send_fail", "sent", "sleep", "open_fail",
                                     "unlink", "unlink_err"})
InFlight(r) == pc[r] \in {"meta", "extract", "locate", "check", "thumb", "send", "sending"}
Persisted == load_stats(statsFile, TRUE).doc

\* C1: a call that handed its artifact to delivery (a reply_audio call was
\* made) has returned only with the artifact file gone, whether the send
\* succeeded or every attempt failed.  The code keeps the file when the last
\* send attempt raises.
C1_ArtifactGoneOnReturn ==
    \A r \in Req : pc[r] = "done" /\ Has(log[r], "send") => req[r].exitFile = "gone"

\* C2: a call whose located artifact is over the payload limit returns having
\* made no send attempt, having sent exactly one error reply, the size
\* message, and with the artifact file gone.  The code returns without
\* deleting it (direct branch) or sends it (search branches).
C2_OversizeRejectedAndDeleted ==
    \A r \in Req :
        pc[r] = "done" /\ TooLarge(req[r].size) =>
            /\ ~Has(log[r], "send")
            /\ ErrorReplies(log[r]) = <<"err_size">>
            /\ req[r].exitFile = "gone"

\* C3: no reply_audio call is ever made with a file over the payload limit,
\* in either retrieval mode.  The search branches have no size check.
C3_NoOversizeSend ==
    \A r \in Req : Has(log[r], "send") => ~TooLarge(req[r].size)

\* C4: in either mode a failed send is retried until one succeeds or
\* max_retries attempts were made, never more, and a failed last attempt is
\* followed by an error reply.  The search branches send once and give up.
C4_RetriedUpToLimit ==
    \A r \in Req :
        pc[r] = "done" /\ Has(log[r], "send") =>
            /\ Count(log[r], "send") <= max_retries
            /\ (~Has(log[r], "sent") =>
                   /\ Count(log[r], "send") + Count(log[r], "open_fail") = max_retries
                   /\ (~req[r].crashed => ErrorReplies(log[r]) # << >>))

\* C5: when the transport fails twice and then succeeds, the call makes
\* exactly three send attempts, sleeps once after each of the two failures and
\* not after the success, performs its one deletion step after the third
\* attempt, and returns with the artifact gone.
C5_FailFailOk ==
    \A r \in Req :
        pc[r] = "done" /\ SendResults(log[r]) = <<"send_fail", "send_fail", "sent">> =>
            /\ \E u \in {"unlink", "unlink_err"} :
                 DeliverySteps(log[r]) = <<"send", "send_fail", "sleep",
                                           "send", "send_fail", "sleep",
                                           "send", "sent", u>>
            /\ req[r].exitFile = "gone"

C5_Witness ==
    \E r \in Req :
        /\ pc[r] = "done"
        /\ SendResults(log[r]) = <<"send_fail", "send_fail", "sent">>
        /\ Has(log[r], "unlink")

NoRowMatches(url) ==
    \A i \in 1..Len(supported_services) : supported_services[i][1] \notin Contains(url)

\* C7: handling a link that contains none of the table's substrings is one
\* step that ends the call with the single 'unsupported' reply (none when that
\* reply raises) and nothing else: no status message, no update_user_stats
\* call, ledger file and downloads folder unchanged, no collaborator call.
C7_UnsupportedHasNoEffect ==
    [][\A r \in Req :
          pc[r] = "idle" /\ pc'[r] # "idle" /\ NoRowMatches(req'[r].url) =>
              /\ pc'[r] = "done"
              /\ log'[r] = IF req'[r].crashed THEN << >> ELSE <<"unsupported">>
              /\ req'[r].status = "none"
              /\ statsFile' = statsFile
              /\ hist' = hist
              /\ downloads' = downloads]_vars

C7_Witness ==
    \E r \in Req :
        /\ pc[r] = "done"
        /\ NoRowMatches(req[r].url)
        /\ req[r].url # ""
        /\ log[r] = <<"unsupported">>

\* C8: whatever calls were made and whichever saves failed, the ledger that
\* load_stats reads back has total_users equal to the number of user records
\* and total_downloads equal to the sum of their downloads.
C8_TotalsMatchUsers ==
    LET l == load_stats(statsFile, TRUE)
    IN  l.shape = "ledger" =>
            /\ l.doc.total_users = Cardinality(DOMAIN l.doc.users)
            /\ l.doc.total_downloads = SumOver(l.doc.users, DOMAIN l.doc.users)

\* two users on file, three downloads, and the latest save failed
C8_Witness ==
    /\ statsFile.kind = "ledger"
    /\ statsFile.doc.total_users = 2
    /\ statsFile.doc.total_downloads >= 3
    /\ call.save = "open_failed"

\* C9: an update_user_stats call that reads and saves the ledger adds 1 to
\* total_downloads; for a user not on file it adds 1 to total_users and
\* creates the record with downloads = 1; for a user on file it leaves
\* total_users alone and adds 1 to that user's downloads; every other user's
\* record is as before.
C9_RecordDownloadEffect ==
    call.user # 0 /\ CleanCall(call) =>
        LET b == load_stats(call.before, TRUE).doc
            a == statsFile.doc
            u == call.user
        IN  /\ statsFile.kind = "ledger"
            /\ a.total_downloads = b.total_downloads + 1
            /\ DOMAIN a.users = DOMAIN b.users \cup {u}
            /\ \A v \in DOMAIN b.users \ {u} : a.users[v] = b.users[v]
            /\ IF u \in DOMAIN b.users
               THEN a.total_users = b.total_users /\ a.users[u] = b.users[u] + 1
               ELSE a.total_users = b.total_users + 1 /\ a.users[u] = 1

\* a second download of a user on file, next to another user's record
C9_Witness ==
    /\ CleanCall(call)
    /\ call.before.kind = "ledger"
    /\ call.user \in DOMAIN call.before.doc.users
    /\ Cardinality(DOMAIN call.before.doc.users) = 2

\* C10 as claimed: the update_user_stats calls of two requests in flight
\* together both read and save without error, yet total_downloads has grown
\* by one only.  The claim says some interleaving does this; stated of the
\* interleavings in which both calls complete, it fails on each of them.
C10_LostUpdate ==
    hist.calls = 2 /\ ~hist.anyFault /\ InFlight(1) /\ InFlight(2) =>
        Persisted.total_downloads = 1

\* C10 amended: update_user_stats loads, changes and saves without yielding
\* the event loop, so as long as no call met an I/O fault the persisted
\* total_downloads is the number of calls made, however the requests overlap.
C10_NoLostUpdate ==
    ~hist.anyFault => Persisted.total_downloads = hist.calls

C10_Witness ==
    /\ hist.calls = 2
    /\ ~hist.anyFault
    /\ InFlight(1) /\ InFlight(2)
    /\ Persisted.total_downloads = 2

\* the base name and the extension that clean_filename joined
BaseOf(c) == SubSeq(c.once, 1, Len(c.once) - Len(splitext(c.input)[2]))
ExtOf(c) == SubSeq(c.once, Len(c.once) - Len(splitext(c.input)[2]) + 1, Len(c.once))

\* C17: clean_filename applied to its own result returns that result, for
\* every file name, also when the base name is emptied by the stripping.
\* '!.a' becomes '.a', whose leading dot is no extension, and then 'a'.
C17_Idempotent ==
    cleaned.applied => cleaned.twice = cleaned.once

\* C18 as claimed: the result is a base name followed by the extension of
\* the input as it was; the base name has only characters of [A-Za-z0-9_-],
\* no two underscores in a row and no underscore first or last.
C18_BaseAsciiOnly ==
    cleaned.applied =>
        LET base == BaseOf(cleaned)
        IN  /\ ExtOf(cleaned) = splitext(cleaned.input)[2]
            /\ \A i \in 1..Len(base) : base[i] \in AsciiWordChars \cup {Hyphen}
            /\ \A i \in 1..(Len(base) - 1) : ~(base[i] = "_" /\ base[i + 1] = "_")
            /\ base # << >> => base[1] # "_" /\ base[Len(base)] # "_"

\* C18 amended: the same, with the base name made of word characters in the
\* sense of \w on str (letters and digits of any script, and the underscore)
\* and hyphens.
C18_BaseWordCharsOnly ==
    cleaned.applied =>
        LET base == BaseOf(cleaned)
        IN  /\ ExtOf(cleaned) = splitext(cleaned.input)[2]
            /\ \A i \in 1..Len(base) : base[i] \in WordChars \cup {Hyphen}
            /\ \A i \in 1..(Len(base) - 1) : ~(base[i] = "_" /\ base[i + 1] = "_")
            /\ base # << >> => base[1] # "_" /\ base[Len(base)] # "_"

\* a name with a Cyrillic letter, a run of underscores made by a space, and a
\* stripped character
C18_Witness ==
    /\ cleaned.applied
    /\ cleaned.input = <<CYRILLIC_YA, " ", "_", "!">>
    /\ cleaned.once = <<CYRILLIC_YA>>

\* C13: a stats_command call by someone other than the owner is answered
\* with the refusal and reads no ledger, and the summary goes to the owner
\* alone.  With OWNER_ID not set the code sends the summary to any caller.
C13_SummaryOnlyForOwner ==
    cmd.caller # 0 =>
        /\ (owner # 0 /\ cmd.caller # owner => cmd.reply = "denied" /\ cmd.reads = 0)
        /\ (cmd.reply = "stats" => cmd.caller = owner)

\* C19: the summary lists at most 5 users, each with the downloads of its
\* record, in non-increasing order of downloads, none of them with fewer
\* downloads than a user left out, and it shows the total_downloads and
\* total_users of the ledger that was loaded.
C19_TopFive ==
    cmd.reply = "stats" /\ cmd.text.kind = "summary" =>
        LET top == cmd.text.top
            doc == load_stats(statsFile, cmd.readOk).doc
            listed == {top[i].user : i \in 1..Len(top)}
        IN  /\ Len(top) <= 5
            /\ Cardinality(listed) = Len(top)
            /\ Len(top) = 5 \/ listed = DOMAIN doc.users
            /\ \A i \in 1..Len(top) :
                  /\ top[i].user \in DOMAIN doc.users
                  /\ top[i].downloads = doc.users[top[i].user]
            /\ \A i \in 1..(Len(top) - 1) : top[i].downloads >= top[i + 1].downloads
            /\ \A i \in 1..Len(top) : \A u \in DOMAIN doc.users \ listed :
                  top[i].downloads >= doc.users[u]
            /\ cmd.text.total_downloads = doc.total_downloads
            /\ cmd.text.total_users = doc.total_users

\* six users on file in an order that is not the order of their downloads,
\* one of them left out of the list
C19_Witness ==
    /\ cmd.reply = "stats"
    /\ Len(cmd.text.top) = 5
    /\ cmd.text.total_users = 6
    /\ cmd.text.top[1].downloads = 2
    /\ cmd.text.top[5].downloads = 1
    /\ statsFile.doc.users[order[1]] = 1
    /\ statsFile.doc.users[order[6]] = 2

\* C11: load_stats returns the fresh ledger whenever the file is missing or
\* holds anything but a ledger, be it unparsable or JSON of another shape.
\* The code returns JSON of another shape as it is.
C11_FreshOnBadFile ==
    call.user # 0 /\ call.before.kind # "ledger" =>
        \A readOk \in BOOLEAN :
            load_stats(call.before, readOk) = [shape |-> "ledger", doc |-> FreshLedger]

\* C12: an update_user_stats call that met a read or save error returns to
\* handle_url with nothing said to the user, and when its save failed the
\* ledger read back from the file is the one that was there before the call.
\* A save that fails after open(..., 'w') has truncated the file loses it.
C12_LedgerFailureInvisible ==
    \A r \in Req :
        pc[r] = "recorded" /\ ~CleanCall(call) =>
            /\ log[r] = <<"record">>
            /\ (call.save \in {"open_failed", "write_failed"} =>
                   load_stats(statsFile, TRUE) = load_stats(call.before, TRUE))

\* C14: a request handled on its own whose one reply_audio call succeeds has
\* made exactly one send attempt, and when it has returned no file it
\* created, audio or thumbnail, is in the downloads folder.
C14_OneSendNoResidue ==
    \A r \in Req :
        /\ pc[r] = "done"
        /\ \A q \in Req \ {r} : pc[q] = "idle"
        /\ SendResults(log[r]) = <<"sent">>
        => /\ Count(log[r], "send") = 1
           /\ ~Has(log[r], "open_fail")
           /\ req[r].exitFile = "gone"
           /\ \A n \in DOMAIN downloads : downloads[n].by # r

\* a direct download with a thumbnail, sent at the first attempt
C14_Witness ==
    /\ pc[1] = "done" /\ pc[2] = "idle"
    /\ req[1].mode = "direct"
    /\ req[1].thumbnail # NoPath
    /\ ~TooLarge(req[1].size)
    /\ DeliverySteps(log[1]) = <<"send", "sent", "unlink">>
    /\ downloads = << >>

\* C15: a request whose extraction call raised, in either mode, makes no
\* send attempt, changes nothing in the downloads folder from that call on,
\* and ends with exactly one error reply received (none only when every
\* reply raised, and then the exception leaves the handler).
C15_ExtractionFailure ==
    /\ [](\A r \in Req :
            pc[r] = "done" /\ req[r].result = "exception" =>
                /\ ~Has(log[r], "send")
                /\ req[r].exitFile = "none"
                /\ Len(ErrorReplies(log[r])) = IF req[r].crashed THEN 0 ELSE 1)
    /\ [][\A r \in Req :
            pc'[r] # pc[r] /\ req'[r].result = "exception" => downloads' = downloads]_vars

C15_Witness ==
    \E r \in Req :
        /\ pc[r] = "done"
        /\ req[r].result = "exception"
        /\ req[r].mode = "search"
        /\ ErrorReplies(log[r]) = <<"err_extract">>

\* C16: a request in a search branch whose metadata lookup gave no title
\* returns without an extraction call, without a located file and without a
\* send attempt, having created no file, and with exactly one error reply:
\* the 'no track information' text, or the generic error text of the
\* enclosing handler when sending the first raised.
C16_NoTitle ==
    \A r \in Req :
        pc[r] = "done" /\ Has(log[r], "no_title") =>
            /\ req[r].mode = "search"
            /\ ~Has(log[r], "extract")
            /\ ~Has(log[r], "send")
            /\ req[r].path = NoPath
            /\ \A n \in DOMAIN downloads : downloads[n].by # r
            /\ ErrorReplies(log[r]) \in
                   IF req[r].crashed THEN {<< >>} ELSE {<<"err_meta">>, <<"err_generic">>}

C16_Witness ==
    \E r \in Req :
        /\ pc[r] = "done"
        /\ Has(log[r], "no_title")
        /\ ErrorReplies(log[r]) = <<"err_meta">>
        /\ req[r].status = "deleted"

\* C20: in both modes the file located after the extraction call is the
\* expected sanitized-name path when it exists, else the most recently
\* modified '.mp3' file of the folder when there is one, else none (the
\* call reports failure); other extensions are never chosen.  The direct
\* branch falls back to the newest file of any name.
C20_LocatePolicy ==
    [][\A r \in Req :
          pc[r] = "locate" /\ pc'[r] = "check" =>
              LET expected == clean_filename(req[r].title \o EXT_MP3)
                  chosen == IF expected \in DOMAIN downloads THEN expected
                            ELSE IF Mp3Files(downloads) # {}
                                 THEN Latest(downloads, Mp3Files(downloads))
                                 ELSE NoPath
              IN  /\ req'[r].path = chosen
                  /\ req'[r].result = IF chosen = NoPath THEN "not_created" ELSE "path"]_vars

\* C21: a request is handed a file that another request's extraction call
\* wrote only by the lookup in the shared folder: the file has the request's
\* own expected name, or that name is absent and the file is the most
\* recently modified '.mp3' (in the direct branch, of all files when there is
\* no '.mp3').  With two requests in flight the second case is reached: one
\* sends the other's file (C21_Witness).
C21_CrossDeliveryByLookup ==
    [][\A r \in Req :
          /\ pc[r] = "locate" /\ pc'[r] = "check"
          /\ req'[r].path # NoPath
          /\ downloads[req'[r].path].by # r
          => LET expected == clean_filename(req[r].title \o EXT_MP3)
                 chosen == req'[r].path
                 pool == IF Mp3Files(downloads) # {} THEN Mp3Files(downloads)
                         ELSE DOMAIN downloads
             IN  \/ chosen = expected
                 \/ /\ expected \notin DOMAIN downloads
                    /\ chosen \in pool
                    /\ \A m \in pool : downloads[m].mtime <= downloads[chosen].mtime
                    /\ req[r].mode = "search" => IsMp3(chosen)]_vars

\* both requests in flight, one of them in its reply_audio call with the
\* file 'a!.mp3' that the other's extraction wrote; that name is no
\* sanitized name, so it was found by modification time
C21_Witness ==
    \E r \in Req, q \in Req :
        /\ r # q
        /\ pc[r] = "sending"
        /\ InFlight(q)
        /\ req[r].path = <<"a", "!">> \o EXT_MP3
        /\ Exists(req[r].path)
        /\ downloads[req[r].path].by = q

\* C22: every request that passed classification returns, however it was
\* interleaved with the other, with an outcome message received by its user:
\* the audio, or an error reply (unless every reply raised and the exception
\* left the handler).  The search branches say nothing when the located file
\* is gone by the time they test for it.
C22_OutcomeMessage ==
    \A r \in Req :
        pc[r] = "done" /\ req[r].mode # "none" /\ ~req[r].crashed =>
            Has(log[r], "sent") \/ ErrorReplies(log[r]) # << >>

\* C23: the branch taken agrees with the service table: a request goes the
\* search way exactly when service_found is Spotify or Yandex Music.  The
\* code tests the url again, by substrings the table does not use.
C23_ModeAgreesWithService ==
    [][\A r \in Req :
          pc[r] = "recorded" /\ pc'[r] # "recorded" =>
              ((req'[r].mode = "search") <=> (req[r].service \in {"Spotify", "Yandex Music"}))]_vars

\* the requests that passed classification and have not been dropped
Recorded(r) ==
    \/ pc[r] \in {"recorded", "meta", "extract", "locate", "check", "thumb", "send", "sending"}
    \/ pc[r] = "done" /\ req[r].mode # "none"

\* C24: update_user_stats is called exactly once for each request that
\* passed classification, right after it and before the status message and
\* every collaborator call; a call that read and saved without error adds 1
\* to total_downloads; and no other step of any request, however it ends and
\* however many send attempts it makes, calls it or changes the ledger file.
C24_RecordedOnceUpFront ==
    /\ [](\A r \in Req :
            Recorded(r) => log[r][1] = "record" /\ Count(log[r], "record") = 1)
    /\ [][/\ \A r \in Req : pc[r] = "classified" /\ pc'[r] # pc[r] =>
                /\ pc'[r] = "recorded"
                /\ hist'.calls = hist.calls + 1
                /\ CleanCall(call') =>
                      load_stats(statsFile', TRUE).doc.total_downloads
                          = load_stats(statsFile, TRUE).doc.total_downloads + 1
          /\ (\A r \in Req : ~(pc[r] = "classified" /\ pc'[r] = "recorded")) =>
                statsFile' = statsFile /\ hist' = hist]_vars

\* a request that gave up after max_retries failed sends, its download
\* still counted
C24_Witness ==
    \E r \in Req :
        /\ pc[r] = "done"
        /\ Count(log[r], "send") = max_retries
        /\ ~Has(log[r], "sent")
        /\ ~hist.anyFault
        /\ Persisted.total_downloads = hist.calls

====
